---- MODULE Spec2Model ----
(***************************************************************************)
(* A model of server.c: a static-file HTTP server.  main accepts           *)
(* connections and hands each to a thread pool; every pool worker runs     *)
(* process_client_request on one connection at a time.                     *)
(*                                                                         *)
(* C strings are TLA+ strings, one character per element (SubSeq, Len and  *)
(* \o work on them).  A block of C memory that strtok_r writes into is a   *)
(* string in which NUL stands for the byte 0.                              *)
(***************************************************************************)
EXTENDS Integers, Sequences, FiniteSets, TLC

(* ------------------------------------------------------------------ *)
(* Bounds of the model                                                 *)
(* ------------------------------------------------------------------ *)

\* connections clients make in the concurrent workload
MaxConn == 3
\* connections clients make in the wide workload
MaxWide == 1
\* unlink/truncate events the environment performs on the web root
MaxFsEvents == 1
\* worker threads of the pool
NumWorkers == 2

(* ------------------------------------------------------------------ *)
(* Header constants (server.c 15-21) and the MIME table (24-29)        *)
(* ------------------------------------------------------------------ *)

found == "%s 200 OK\r\n"
content_header == "Content-Type: %s\r\n"
length_header == "Content-Length: %s\r\n\r\n"
not_found == "%s 404 Not Found\r\n"
not_supported == "Content-Type: application/octet-stream\r\n"
no_content == "Content-Length: 0\r\n\r\n"

file_map ==
  << [extension |-> ".html", mime_type |-> "text/html"],
     [extension |-> ".jpg",  mime_type |-> "image/jpeg"],
     [extension |-> ".css",  mime_type |-> "text/css"],
     [extension |-> ".js",   mime_type |-> "text/javascript"] >>

\* the web root given on the command line (argv[2])
webroot == "/w"

(* ------------------------------------------------------------------ *)
(* C string primitives                                                 *)
(* ------------------------------------------------------------------ *)

\* the byte 0 inside a block of C memory
NUL == "\f"

Ch(s, i) == SubSeq(s, i, i)

\* strlen / the C string that starts at position p of mem: up to the next NUL
RECURSIVE StrEnd(_, _)
StrEnd(mem, p) ==
  IF p > Len(mem) \/ Ch(mem, p) = NUL THEN p ELSE StrEnd(mem, p + 1)

CStr(mem, p) == SubSeq(mem, p, StrEnd(mem, p) - 1)

\* strspn(s, delim) for a one-character delimiter set: first position >= p
\* that does not hold delim
RECURSIVE SkipDelim(_, _, _)
SkipDelim(mem, p, delim) ==
  IF p <= Len(mem) /\ Ch(mem, p) = delim THEN SkipDelim(mem, p + 1, delim) ELSE p

\* strcspn(s, delim): first position >= p that holds delim or NUL
RECURSIVE FindDelim(_, _, _)
FindDelim(mem, p, delim) ==
  IF p > Len(mem) \/ Ch(mem, p) = NUL \/ Ch(mem, p) = delim
  THEN p ELSE FindDelim(mem, p + 1, delim)

\* strtok_r(s, delim, &saveptr) on the memory block mem, s a position in it.
\* tok = 0 is the NULL return.  A token that ends at a delimiter has the
\* delimiter overwritten by NUL and saveptr one past it; a token that ends
\* at the end of the string leaves saveptr on the terminating NUL.
strtok_r(mem, s, delim) ==
  LET b == SkipDelim(mem, s, delim)
      e == FindDelim(mem, b, delim)
  IN  IF s > Len(mem) \/ Ch(mem, s) = NUL
      THEN [tok |-> 0, mem |-> mem, saveptr |-> s]
      ELSE IF b > Len(mem) \/ Ch(mem, b) = NUL
      THEN [tok |-> 0, mem |-> mem, saveptr |-> b]
      ELSE IF e > Len(mem) \/ Ch(mem, e) = NUL
      THEN [tok |-> b, mem |-> mem, saveptr |-> e]
      ELSE [tok |-> b,
            mem |-> SubSeq(mem, 1, e - 1) \o NUL \o SubSeq(mem, e + 1, Len(mem)),
            saveptr |-> e + 1]

\* strrchr(s, c): position of the last c in s, 0 for NULL
RECURSIVE strrchr(_, _)
strrchr(s, c) ==
  IF s = "" THEN 0
  ELSE IF Ch(s, Len(s)) = c THEN Len(s)
  ELSE strrchr(SubSeq(s, 1, Len(s) - 1), c)

\* sprintf(buffer, defaults, data) for a format with "%s" conversions
RECURSIVE sprintf(_, _)
sprintf(defaults, data) ==
  IF defaults = "" THEN ""
  ELSE IF Len(defaults) >= 2 /\ SubSeq(defaults, 1, 2) = "%s"
  THEN data \o sprintf(SubSeq(defaults, 3, Len(defaults)), data)
  ELSE Ch(defaults, 1) \o sprintf(Tail(defaults), data)

\* the "%zu" conversion: the decimal digits of n, most significant first
RECURSIVE Decimal(_)
Decimal(n) ==
  IF n < 10 THEN Ch("0123456789", n + 1)
  ELSE Decimal(n \div 10) \o Ch("0123456789", (n % 10) + 1)

(* ------------------------------------------------------------------ *)
(* parse_request (server.c 95-136)                                     *)
(* ------------------------------------------------------------------ *)

\* response is the memory of the request buffer: the bytes read, whatever
\* follows them in the buffer, and a terminating NUL.  The result is the
\* filled http_request, or a dereference of NULL in strdup (crash), and
\* underflow tells that line 133 wrote at index strlen("") - 1.
parse_request(response) ==
  LET copy  == CStr(response, 1) \o NUL
      t1    == strtok_r(copy, 1, "\n")
      t2    == strtok_r(t1.mem, 1, " ")
      t3    == strtok_r(t2.mem, t2.saveptr, " ")
      rest  == CStr(t3.mem, t3.saveptr)
  IN  IF t2.tok = 0
      THEN [crash |-> TRUE, underflow |-> FALSE,
            method |-> "", URI |-> "", httpversion |-> ""]
      ELSE IF t3.tok = 0
      THEN [crash |-> TRUE, underflow |-> FALSE,
            method |-> CStr(t2.mem, t2.tok), URI |-> "", httpversion |-> ""]
      ELSE [crash |-> FALSE, underflow |-> rest = "",
            method |-> CStr(t3.mem, t2.tok),
            URI |-> CStr(t3.mem, t3.tok),
            httpversion |-> IF rest = "" THEN ""
                            ELSE SubSeq(rest, 1, Len(rest) - 1)]

(* ------------------------------------------------------------------ *)
(* The filesystem behind access() and fopen()                          *)
(* ------------------------------------------------------------------ *)

\* the directories of the machine
Dirs == {"/", "/w"}

\* the files at start: whether the name is linked, whether the mode lets the
\* server read it, and the bytes
File(r, d) == [exists |-> TRUE, readable |-> r, data |-> d]

InitFs ==
  ( "/w/index.html"  :> File(TRUE, "<p>hello</p>") ) @@
  ( "/w/e.css"       :> File(TRUE, "") ) @@
  ( "/w/i.jpg"       :> File(TRUE, "JPG") ) @@
  ( "/w/s.js"        :> File(TRUE, "x=1;") ) @@
  ( "/w/archive.zip" :> File(TRUE, "PK") ) @@
  ( "/w/noext"       :> File(TRUE, "n") ) @@
  ( "/w/U.JS"        :> File(TRUE, "u") ) @@
  ( "/w/locked.css"  :> File(FALSE, "L") ) @@
  ( "/k.js"          :> File(TRUE, "key") )

\* the files another process unlinks or truncates while the server runs
Touched == {"/w/index.html"}

\* a path split at its '/' characters
RECURSIVE Split(_)
Split(s) ==
  LET e == FindDelim(s, 1, "/")
  IN  IF e > Len(s) THEN <<s>>
      ELSE <<SubSeq(s, 1, e - 1)>> \o Split(SubSeq(s, e + 1, Len(s)))

RECURSIVE Join(_)
Join(cur) ==
  IF cur = <<>> THEN "/"
  ELSE IF Len(cur) = 1 THEN "/" \o cur[1]
  ELSE Join(SubSeq(cur, 1, Len(cur) - 1)) \o "/" \o cur[Len(cur)]

\* the kernel's walk along a path: "." and empty components stay, ".." goes
\* up, every component but the last must be a directory.  NoEnt when the
\* walk fails.
NoEnt == "ENOENT"

RECURSIVE Walk(_, _)
Walk(comps, cur) ==
  IF comps = <<>> THEN Join(cur)
  ELSE IF Join(cur) \notin Dirs THEN NoEnt
  ELSE LET c == Head(comps)
       IN  IF c = "" \/ c = "." THEN Walk(Tail(comps), cur)
           ELSE IF c = ".."
           THEN Walk(Tail(comps),
                     IF cur = <<>> THEN cur ELSE SubSeq(cur, 1, Len(cur) - 1))
           ELSE Walk(Tail(comps), Append(cur, c))

\* the canonical absolute name a path resolves to
Namei(path) == Walk(Split(path), <<>>)

\* access(path, F_OK) == 0: the path names a directory or a linked file,
\* whatever its mode
access(f, path) ==
  LET c == Namei(path)
  IN  c \in Dirs \/ (c \in DOMAIN f /\ f[c].exists)

\* fopen(path, "rb") != NULL: a linked file the server may read
fopen(f, path) ==
  LET c == Namei(path)
  IN  c \in DOMAIN f /\ f[c].exists /\ f[c].readable

(* ------------------------------------------------------------------ *)
(* supported_file (140-150) and get_full_path (153-182)                *)
(* ------------------------------------------------------------------ *)

FOUND == "FOUND"
NOT_FOUND == "NOT_FOUND"

supported_file(extension) ==
  \E i \in 1..Len(file_map) : file_map[i].extension = extension

\* a resolver that takes every existing path with an extension
get_full_path_any(root, path, f) ==
  LET full_path == root \o path
      dot       == strrchr(full_path, ".")
  IN  [path   |-> full_path,
       status |-> IF dot # 0 /\ access(f, full_path) THEN FOUND ELSE NOT_FOUND]

get_full_path(root, path, f) ==
  LET full_path == root \o path
      dot       == strrchr(full_path, ".")
      extension == SubSeq(full_path, dot, Len(full_path))
  IN  [path   |-> full_path,
       status |-> IF dot # 0 /\ access(f, full_path) /\ supported_file(extension)
                  THEN FOUND ELSE NOT_FOUND]

(* ------------------------------------------------------------------ *)
(* The bytes of the response                                           *)
(* ------------------------------------------------------------------ *)

\* write_headers (185-203): the bytes handed to write()
write_headers(data, defaults) == sprintf(defaults, data)

\* get_length_bytes (206-215)
RECURSIVE get_length_bytes(_)
get_length_bytes(bytes) ==
  IF bytes = 0 THEN 0 ELSE 1 + get_length_bytes(bytes \div 10)

\* a buffer sized for the digits alone, without the header text
write_content_length_tight(bytes_read) ==
  LET total_bytes == get_length_bytes(bytes_read)
      digits      == Decimal(bytes_read)
      content_length ==
        IF Len(digits) <= total_bytes THEN digits
        ELSE SubSeq(digits, 1, total_bytes)
  IN  write_headers(content_length, length_header)

\* write_content_length (218-241): snprintf into total_bytes + 1 bytes keeps
\* at most total_bytes characters of the number
write_content_length(bytes_read) ==
  LET total_bytes == Len(length_header) + get_length_bytes(bytes_read)
      digits      == Decimal(bytes_read)
      content_length ==
        IF Len(digits) <= total_bytes THEN digits
        ELSE SubSeq(digits, 1, total_bytes)
  IN  write_headers(content_length, length_header)

\* a lookup whose strcmp test is inverted: the first entry that differs
content_type_inverted(path) ==
  LET dot == strrchr(path, ".")
      requested_file_extension == SubSeq(path, dot, Len(path))
      hits == {i \in 1..Len(file_map) :
                 file_map[i].extension # requested_file_extension}
      first == CHOOSE i \in hits : \A j \in hits : i <= j
  IN  IF dot = 0 \/ hits = {}
      THEN [bytes |-> not_supported, checked |-> FALSE]
      ELSE [bytes |-> write_headers(file_map[first].mime_type, content_header),
            checked |-> TRUE]

\* construct_file_response (307-330): the Content-Type line for a path, and
\* whether it goes out through write_headers (which checks write()) or
\* through a bare write() whose result is dropped
content_type(path) ==
  LET dot == strrchr(path, ".")
      requested_file_extension == SubSeq(path, dot, Len(path))
      hits == {i \in 1..Len(file_map) :
                 file_map[i].extension = requested_file_extension}
      first == CHOOSE i \in hits : \A j \in hits : i <= j
  IN  IF dot = 0 \/ hits = {}
      THEN [bytes |-> not_supported, checked |-> FALSE]
      ELSE [bytes |-> write_headers(file_map[first].mime_type, content_header),
            checked |-> TRUE]

(* ------------------------------------------------------------------ *)
(* What clients send, and what read() leaves in the buffer             *)
(* ------------------------------------------------------------------ *)

\* a request in the wire format "<METHOD> <URI> <HTTP-VERSION><term>" with
\* the bytes that follow the request line
Line(m, u, v, term, more) ==
  [kind |-> "line", raw |-> m \o " " \o u \o " " \o v \o term \o more,
   uri |-> u, version |-> v, term |-> term]

\* any other bytes
Bytes(raw) == [kind |-> "bytes", raw |-> raw, uri |-> "", version |-> "", term |-> ""]

NoReq == [kind |-> "none", raw |-> "", uri |-> "", version |-> "", term |-> ""]

Requests ==
  { Line("GET", "/index.html",   "HTTP/1.1", "\r\n", ""),
    Line("GET", "/e.css",        "HTTP/1.0", "\r\n", "Host: h\r\n\r\n"),
    Line("GET", "/i.jpg",        "HTTP/1.1", "\r\n", ""),
    Line("GET", "/s.js",         "HTTP/1.1", "\r\n", ""),
    Line("GET", "/missing.html", "HTTP/1.1", "\r\n", ""),
    Line("GET", "/archive.zip",  "HTTP/1.1", "\r\n", ""),
    Line("GET", "/noext",        "HTTP/1.1", "\r\n", ""),
    Line("GET", "/U.JS",         "HTTP/1.1", "\r\n", ""),
    Line("GET", "/locked.css",   "HTTP/1.1", "\r\n", ""),
    Line("GET", "/../k.js",      "HTTP/1.1", "\r\n", ""),
    Line("GET", "/index.html",   "HTTP/1.1", "\n", ""),
    Bytes("GET /index.html HTTP/1.1 x\r\n"),
    Bytes("GET /index.html\r\n"),
    Bytes("GET\r\n"),
    Bytes("GET"),
    Bytes("") }

\* the requests of the concurrent workload: a served file, a file the
\* server may not read, and a request line of one token
Typical ==
  { Line("GET", "/index.html",   "HTTP/1.1", "\r\n", ""),
    Line("GET", "/locked.css",   "HTTP/1.1", "\r\n", ""),
    Bytes("GET\r\n") }

\* the bytes of the stack buffer behind those read() stored: the buffer is
\* not initialised and read() writes no terminator
Garbage == {"", "x", " /i.jpg HTTP/1.1\r\n"}

(* ------------------------------------------------------------------ *)
(* State                                                               *)
(* ------------------------------------------------------------------ *)

VARIABLES
  proc,       \* "running", "exited" (exit(EXIT_FAILURE)) or "crashed" (SIGSEGV)
  mpc,        \* main: "accept" or "submit"
  client,     \* main's local client
  naccepted,  \* connections accepted so far; handles are 1..naccepted
  queue,      \* the pool's job queue
  wk,         \* per worker: position in process_client_request and its locals
  conn,       \* per connection: what the client sent and received, close()s
  fs,         \* the filesystem
  fsEvents,   \* unlink/truncate events so far
  workload,   \* the requests the clients of this run send
  limit,      \* the connections the clients of this run make
  running     \* the flag handle_sig_int sets (34)

vars == <<proc, mpc, client, naccepted, queue, wk, conn, fs, fsEvents,
          workload, limit, running>>

Workers == 1..NumWorkers
Handles == 1..(IF MaxConn > MaxWide THEN MaxConn ELSE MaxWide)

ERROR == -1

NoRequest == [method |-> "", URI |-> "", httpversion |-> ""]

IdleWorker ==
  [pc |-> "idle", failed |-> "", client |-> 0, request |-> NoRequest,
   path |-> "", status_code |-> "", file |-> "", file_size |-> 0, bytes |-> ""]

FreshConn ==
  [sent |-> NoReq, out |-> "", closes |-> 0, opens |-> 0, reads |-> 0, takes |-> 0,
   wfail |-> FALSE, from |-> {}]

Init ==
  /\ proc = "running"
  /\ mpc = "accept"
  /\ client = 0
  /\ naccepted = 0
  /\ queue = <<>>
  /\ wk = [w \in Workers |-> IdleWorker]
  /\ conn = [c \in Handles |-> FreshConn]
  /\ fs = InitFs
  /\ fsEvents = 0
  /\ workload = Typical
  /\ limit = MaxConn
  /\ running = FALSE

(* ------------------------------------------------------------------ *)
(* main (395-412)                                                      *)
(* ------------------------------------------------------------------ *)

\* a loop that goes on only until handle_sig_int has set the flag
LoopTestFlag == ~running

\* 401: the condition of the accept loop, while (true)
LoopTest == TRUE

\* an acceptor that takes a connection only when a worker is free for it
AcceptOkWhenIdle ==
  /\ proc = "running" /\ mpc = "accept" /\ LoopTest
  /\ \E w \in Workers : wk[w].pc = "idle"
  /\ naccepted < limit
  /\ naccepted' = naccepted + 1
  /\ client' = naccepted + 1
  /\ mpc' = "submit"
  /\ UNCHANGED <<proc, queue, wk, conn, fs, fsEvents, workload, limit, running>>

\* accept() returns a new descriptor
AcceptOk ==
  /\ proc = "running" /\ mpc = "accept" /\ LoopTest
  /\ naccepted < limit
  /\ naccepted' = naccepted + 1
  /\ client' = naccepted + 1
  /\ mpc' = "submit"
  /\ UNCHANGED <<proc, queue, wk, conn, fs, fsEvents, workload, limit, running>>

\* a failed accept without the continue: main goes on to the submit
AcceptFailThenSubmit ==
  /\ proc = "running" /\ mpc = "accept" /\ LoopTest
  /\ client' = ERROR
  /\ mpc' = "submit"
  /\ UNCHANGED <<proc, naccepted, queue, wk, conn, fs, fsEvents, workload, limit, running>>

\* accept() returns ERROR: perror and continue
AcceptFail ==
  /\ proc = "running" /\ mpc = "accept" /\ LoopTest
  /\ client' = ERROR
  /\ UNCHANGED <<proc, mpc, naccepted, queue, wk, conn, fs, fsEvents, workload, limit, running>>

\* add_client_work(pool, &client): the job wraps the handle client holds at
\* the call
add_client_work(q, c) == Append(q, c)

Submit ==
  /\ proc = "running" /\ mpc = "submit"
  /\ queue' = add_client_work(queue, client)
  /\ mpc' = "accept"
  /\ UNCHANGED <<proc, client, naccepted, wk, conn, fs, fsEvents, workload, limit, running>>

(* ------------------------------------------------------------------ *)
(* The pool's workers                                                  *)
(* ------------------------------------------------------------------ *)

\* an idle worker takes the oldest job and calls
\* process_client_request(handle).  The workers are identical threads: of
\* the idle ones, the model lets the one with the lowest index wake up.
Dequeue(w) ==
  /\ proc = "running" /\ wk[w].pc = "idle"
  /\ \A v \in Workers : v < w => wk[v].pc # "idle"
  /\ queue # <<>>
  /\ queue' = Tail(queue)
  /\ wk' = [wk EXCEPT ![w] = [IdleWorker EXCEPT !.pc = "read", !.client = Head(queue)]]
  /\ conn' = [conn EXCEPT ![Head(queue)].takes = @ + 1]
  /\ UNCHANGED <<proc, mpc, client, naccepted, fs, fsEvents, workload, limit, running>>

(* ------------------------------------------------------------------ *)
(* process_client_request (335-374)                                    *)
(* ------------------------------------------------------------------ *)

\* exit(EXIT_FAILURE) called by worker w after the call named by why failed
Exit(w, why) ==
  /\ proc' = "exited"
  /\ wk' = [wk EXCEPT ![w].pc = "exit", ![w].failed = why]

\* a handler that uses the acceptor's latest descriptor in place of the one
\* it was called with
TargetLatest(w) == naccepted

\* the descriptor every read, write and close of the handler is made on
Target(w) == wk[w].client

\* write(client, bytes, n) delivered the bytes
Sent(w, bytes) ==
  [conn EXCEPT ![Target(w)].out = @ \o bytes,
               ![Target(w)].from = @ \cup {wk[w].client}]

\* write(client, ...) returned ERROR
Unsent(w) == [conn EXCEPT ![Target(w)].wfail = TRUE]

\* a write whose result is checked (write_headers 195-198, 284-287)
CheckedWrite(w, bytes, next) ==
  \/ /\ conn' = Sent(w, bytes)
     /\ wk' = [wk EXCEPT ![w].pc = next]
     /\ UNCHANGED proc
  \/ /\ conn' = Unsent(w)
     /\ Exit(w, "write")

\* a write whose result is dropped (312, 329, 360)
UncheckedWrite(w, bytes, next) ==
  /\ \/ conn' = Sent(w, bytes)
     \/ conn' = Unsent(w)
  /\ wk' = [wk EXCEPT ![w].pc = next]
  /\ UNCHANGED proc

\* 341-352: read(client, buffer, BUFFER_SIZE - 1), parse_request on the
\* buffer, get_full_path on the URI.  read() returning ERROR ends the
\* process; strdup(NULL) in parse_request ends it with a signal; the store
\* at httpversion[-1] may corrupt the heap or pass.
Read(w) ==
  /\ proc = "running" /\ wk[w].pc = "read"
  /\ \/ \E r \in workload, g \in Garbage :
          LET rq == parse_request(r.raw \o g \o NUL)
              fp == get_full_path(webroot, rq.URI, fs)
          IN  /\ conn' = [conn EXCEPT ![Target(w)].sent = r]
              /\ \/ /\ rq.crash \/ rq.underflow
                    /\ proc' = "crashed"
                    /\ wk' = [wk EXCEPT ![w].pc = "segv",
                                ![w].failed = IF rq.crash THEN "strdup" ELSE "store"]
                 \/ /\ ~rq.crash
                    /\ wk' = [wk EXCEPT ![w].pc = "status",
                                ![w].request = [method |-> rq.method, URI |-> rq.URI,
                                                httpversion |-> rq.httpversion],
                                ![w].path = fp.path, ![w].status_code = fp.status]
                    /\ UNCHANGED proc
     \/ /\ Exit(w, "read")
        /\ UNCHANGED conn
  /\ UNCHANGED <<mpc, client, naccepted, queue, fs, fsEvents, workload, limit, running>>

\* 305: the status line
WriteStatus(w) ==
  /\ proc = "running" /\ wk[w].pc = "status"
  /\ CheckedWrite(w, write_headers(wk[w].request.httpversion,
                                   IF wk[w].status_code = FOUND THEN found
                                   ELSE not_found),
                  "ctype")
  /\ UNCHANGED <<mpc, client, naccepted, queue, fs, fsEvents, workload, limit, running>>

\* a handler that goes on to read_write_file whatever the status code
WriteContentTypeThenFile(w) ==
  LET ct   == content_type(wk[w].path)
      next == "fopen"
  IN  /\ proc = "running" /\ wk[w].pc = "ctype"
      /\ IF ct.checked THEN CheckedWrite(w, ct.bytes, next)
                       ELSE UncheckedWrite(w, ct.bytes, next)
      /\ UNCHANGED <<mpc, client, naccepted, queue, fs, fsEvents, workload, limit, running>>

\* 307-330: the Content-Type line
WriteContentType(w) ==
  LET ct   == content_type(wk[w].path)
      next == IF wk[w].status_code = FOUND THEN "fopen" ELSE "nocontent"
  IN  /\ proc = "running" /\ wk[w].pc = "ctype"
      /\ IF ct.checked THEN CheckedWrite(w, ct.bytes, next)
                       ELSE UncheckedWrite(w, ct.bytes, next)
      /\ UNCHANGED <<mpc, client, naccepted, queue, fs, fsEvents, workload, limit, running>>

\* 360: Content-Length: 0 of the 404 branch
WriteNoContent(w) ==
  /\ proc = "running" /\ wk[w].pc = "nocontent"
  /\ UncheckedWrite(w, no_content, "close")
  /\ UNCHANGED <<mpc, client, naccepted, queue, fs, fsEvents, workload, limit, running>>

\* 250-259: fopen, then the size probe with fseek/ftell
Fopen(w) ==
  /\ proc = "running" /\ wk[w].pc = "fopen"
  /\ IF fopen(fs, wk[w].path)
     THEN /\ wk' = [wk EXCEPT ![w].pc = "fread",
                      ![w].file = Namei(wk[w].path),
                      ![w].file_size = Len(fs[Namei(wk[w].path)].data)]
          /\ conn' = [conn EXCEPT ![Target(w)].opens = @ + 1]
          /\ UNCHANGED proc
     ELSE /\ Exit(w, "fopen")
          /\ UNCHANGED conn
  /\ UNCHANGED <<mpc, client, naccepted, queue, fs, fsEvents, workload, limit, running>>

\* an fread whose count is not compared with the probed size
FreadUncompared(w) ==
  LET data       == fs[wk[w].file].data
      bytes_read == IF Len(data) < wk[w].file_size THEN Len(data)
                    ELSE wk[w].file_size
  IN  /\ proc = "running" /\ wk[w].pc = "fread"
      /\ wk' = [wk EXCEPT ![w].bytes = SubSeq(data, 1, bytes_read),
                  ![w].pc = "length"]
      /\ conn' = [conn EXCEPT ![Target(w)].reads = @ + 1]
      /\ UNCHANGED <<proc, mpc, client, naccepted, queue, fs, fsEvents, workload, limit, running>>

\* 277-278: fread of file_size bytes, and the comparison with buffer_size
Fread(w) ==
  LET data       == fs[wk[w].file].data
      bytes_read == IF Len(data) < wk[w].file_size THEN Len(data)
                    ELSE wk[w].file_size
  IN  /\ proc = "running" /\ wk[w].pc = "fread"
      /\ wk' = [wk EXCEPT ![w].bytes = SubSeq(data, 1, bytes_read),
                  ![w].pc = IF bytes_read = wk[w].file_size THEN "length"
                            ELSE "close"]
      /\ conn' = [conn EXCEPT ![Target(w)].reads = @ + 1]
      /\ UNCHANGED <<proc, mpc, client, naccepted, queue, fs, fsEvents, workload, limit, running>>

\* 281: write_content_length(client, bytes_read)
WriteLength(w) ==
  /\ proc = "running" /\ wk[w].pc = "length"
  /\ CheckedWrite(w, write_content_length(Len(wk[w].bytes)), "body")
  /\ UNCHANGED <<mpc, client, naccepted, queue, fs, fsEvents, workload, limit, running>>

\* 284-287: the body
WriteBody(w) ==
  /\ proc = "running" /\ wk[w].pc = "body"
  /\ CheckedWrite(w, wk[w].bytes, "close")
  /\ UNCHANGED <<mpc, client, naccepted, queue, fs, fsEvents, workload, limit, running>>

\* 363-373: close(client) and the return to the pool
Close(w) ==
  /\ proc = "running" /\ wk[w].pc = "close"
  /\ conn' = [conn EXCEPT ![Target(w)].closes = @ + 1]
  /\ wk' = [wk EXCEPT ![w] = IdleWorker]
  /\ UNCHANGED <<proc, mpc, client, naccepted, queue, fs, fsEvents, workload, limit, running>>

(* ------------------------------------------------------------------ *)
(* Other processes acting on the web root                              *)
(* ------------------------------------------------------------------ *)

Unlink(p) ==
  /\ proc = "running" /\ fsEvents < MaxFsEvents
  /\ fs[p].exists
  /\ fs' = [fs EXCEPT ![p].exists = FALSE]
  /\ fsEvents' = fsEvents + 1
  /\ UNCHANGED <<proc, mpc, client, naccepted, queue, wk, conn, workload, limit, running>>

Truncate(p) ==
  /\ proc = "running" /\ fsEvents < MaxFsEvents
  /\ fs[p].exists /\ fs[p].data # ""
  /\ fs' = [fs EXCEPT ![p].data = ""]
  /\ fsEvents' = fsEvents + 1
  /\ UNCHANGED <<proc, mpc, client, naccepted, queue, wk, conn, workload, limit, running>>

(* ------------------------------------------------------------------ *)
(* Specification                                                       *)
(* ------------------------------------------------------------------ *)

Next ==
  \/ AcceptOk
  \/ AcceptFail
  \/ Submit
  \/ \E w \in Workers : Dequeue(w)
  \/ \E w \in Workers : Read(w)
  \/ \E w \in Workers : WriteStatus(w)
  \/ \E w \in Workers : WriteContentType(w)
  \/ \E w \in Workers : WriteNoContent(w)
  \/ \E w \in Workers : Fopen(w)
  \/ \E w \in Workers : Fread(w)
  \/ \E w \in Workers : WriteLength(w)
  \/ \E w \in Workers : WriteBody(w)
  \/ \E w \in Workers : Close(w)
  \/ \E p \in Touched : Unlink(p)
  \/ \E p \in Touched : Truncate(p)

Spec == Init /\ [][Next]_vars

\* 36-38: handle_sig_int, run when the signal it handles arrives
handle_sig_int ==
  /\ proc = "running"
  /\ running' = TRUE
  /\ UNCHANGED <<proc, mpc, client, naccepted, queue, wk, conn, fs, fsEvents,
                 workload, limit>>

\* the server with signals arriving: the concurrent requests on MaxWide
\* connections
InitSig ==
  /\ proc = "running"
  /\ mpc = "accept"
  /\ client = 0
  /\ naccepted = 0
  /\ queue = <<>>
  /\ wk = [w \in Workers |-> IdleWorker]
  /\ conn = [c \in Handles |-> FreshConn]
  /\ fs = InitFs
  /\ fsEvents = 0
  /\ workload = Typical
  /\ limit = MaxWide
  /\ running = FALSE

NextSig == Next \/ handle_sig_int

SpecSig == InitSig /\ [][NextSig]_vars

\* the wide workload: every request of Requests, on MaxWide connections
InitWide ==
  /\ proc = "running"
  /\ mpc = "accept"
  /\ client = 0
  /\ naccepted = 0
  /\ queue = <<>>
  /\ wk = [w \in Workers |-> IdleWorker]
  /\ conn = [c \in Handles |-> FreshConn]
  /\ fs = InitFs
  /\ fsEvents = 0
  /\ workload = Requests
  /\ limit = MaxWide
  /\ running = FALSE

SpecWide == InitWide /\ [][Next]_vars

\* clients that send a request line in the wire format and take the bytes
\* written to them: no read() and no write() fails
Cooperative ==
  /\ \A w \in Workers : wk[w].failed \notin {"read", "write"}
  /\ \A c \in Handles : ~conn[c].wfail /\ conn[c].sent.kind \in {"none", "line"}

NextCooperative == Next /\ Cooperative'

\* the steps of worker w
WorkerStep(w) ==
  \/ Dequeue(w) \/ Read(w) \/ WriteStatus(w) \/ WriteContentType(w)
  \/ WriteNoContent(w) \/ Fopen(w) \/ Fread(w) \/ WriteLength(w)
  \/ WriteBody(w) \/ Close(w)

\* the concurrent workload with cooperative clients, under a scheduler that
\* lets the acceptor and every worker thread run
FairSpec ==
  /\ Init /\ [][NextCooperative]_vars
  /\ WF_vars(Submit)
  /\ \A w \in Workers : WF_vars(WorkerStep(w) /\ Cooperative')

(* ------------------------------------------------------------------ *)
(* Vocabulary of the properties                                        *)
(* ------------------------------------------------------------------ *)

Accepted(c) == c <= naccepted

\* main holds c between accept and add_client_work
Pending(c) == mpc = "submit" /\ client = c

Queued(c) == Cardinality({i \in 1..Len(queue) : queue[i] = c})

\* the workers inside process_client_request for handle c, wherever they are
Holders(c) == {w \in Workers : wk[w].pc # "idle" /\ wk[w].client = c}

\* the handler for c ran to its return
Returned(c) == conn[c].takes > 0 /\ Holders(c) = {}

\* the handler for c was left through exit() or a signal
Aborted(c) == \E w \in Holders(c) : wk[w].pc \in {"exit", "segv"}

Untouched(c) ==
  /\ conn[c].sent = NoReq /\ conn[c].out = "" /\ conn[c].closes = 0
  /\ conn[c].opens = 0 /\ conn[c].reads = 0 /\ ~conn[c].wfail /\ conn[c].from = {}

(* ------------------------------------------------------------------ *)
(* C1                                                                  *)
(* ------------------------------------------------------------------ *)

C2_ClosedOnEveryExitPath ==
  \A c \in Handles :
    /\ conn[c].closes <= 1
    /\ Returned(c) \/ Aborted(c) => conn[c].closes = 1

(* ------------------------------------------------------------------ *)
(* The wire format, as the properties read it                          *)
(* ------------------------------------------------------------------ *)

\* a request line "<METHOD> <URI> <HTTP-VERSION>\r\n"
WireRequest(r) == r.kind = "line" /\ r.term = "\r\n"

Suffix(s, e) == Len(s) >= Len(e) /\ SubSeq(s, Len(s) - Len(e) + 1, Len(s)) = e

Mime ==
  (".html" :> "text/html") @@ (".jpg" :> "image/jpeg") @@
  (".css" :> "text/css") @@ (".js" :> "text/javascript")

Supported == DOMAIN Mime

ContentTypeLines ==
  {"Content-Type: " \o m \o "\r\n" :
     m \in {Mime[e] : e \in Supported} \cup {"application/octet-stream"}}

\* the handler for c ran to its return and every write() it made went out
Answered(c) == Returned(c) /\ ~conn[c].wfail

(* ------------------------------------------------------------------ *)
(* C3                                                                  *)
(* ------------------------------------------------------------------ *)

\* C3: a wire-format request for a URI with a supported extension that names
\* an existing readable file under the web root, which nobody touched, is
\* answered with exactly: status line "<version> 200 OK", the Content-Type
\* of the extension, Content-Length with the decimal file length, a blank
\* line, and the file's bytes.
C3_OkResponseExact ==
  \A c \in Handles : \A e \in Supported :
    LET r == conn[c].sent
        p == webroot \o r.uri
    IN  ( /\ Answered(c) /\ WireRequest(r) /\ Suffix(r.uri, e)
          /\ p \in DOMAIN InitFs /\ InitFs[p].readable /\ fs[p] = InitFs[p] )
        => conn[c].out =
             r.version \o " 200 OK\r\n"
             \o "Content-Type: " \o Mime[e] \o "\r\n"
             \o "Content-Length: " \o Decimal(Len(InitFs[p].data)) \o "\r\n\r\n"
             \o InitFs[p].data

\* the empty file has been served: a 200 with Content-Length: 0 and no body
C3_Witness ==
  \E c \in Handles :
    /\ Answered(c) /\ conn[c].sent.uri = "/e.css" /\ WireRequest(conn[c].sent)
    /\ conn[c].closes = 1
    /\ conn[c].out = "HTTP/1.0 200 OK\r\nContent-Type: text/css\r\nContent-Length: 0\r\n\r\n"

(* ------------------------------------------------------------------ *)
(* C4                                                                  *)
(* ------------------------------------------------------------------ *)

\* the URI resolves to no existing path, or has no supported extension
NotServable(r) ==
  LET p == webroot \o r.uri
  IN  /\ WireRequest(r)
      /\ p \notin Touched
      /\ ~access(InitFs, p) \/ ~\E e \in Supported : Suffix(r.uri, e)

\* C4: for a wire-format request whose URI resolves to a non-existent path or
\* has an unsupported or absent extension, the file is never opened, and the
\* answer is the status line "<version> 404 Not Found", one Content-Type
\* line, "Content-Length: 0", the blank line, and no byte after it.
C4_NotFoundResponse ==
  \A c \in Handles :
    LET r == conn[c].sent
    IN  NotServable(r) =>
          /\ conn[c].opens = 0
          /\ \A w \in Holders(c) : wk[w].file = ""
          /\ Answered(c) =>
               \E ct \in ContentTypeLines :
                 conn[c].out = r.version \o " 404 Not Found\r\n"
                               \o ct \o "Content-Length: 0\r\n\r\n"

\* an existing file with an unsupported extension has been answered 404
C4_Witness ==
  \E c \in Handles :
    /\ Answered(c) /\ conn[c].sent.uri = "/archive.zip" /\ NotServable(conn[c].sent)
    /\ access(fs, webroot \o conn[c].sent.uri)
    /\ conn[c].closes = 1 /\ conn[c].opens = 0
    /\ Suffix(conn[c].out, "Content-Length: 0\r\n\r\n")

(* ------------------------------------------------------------------ *)
(* C5                                                                  *)
(* ------------------------------------------------------------------ *)

\* the request lines of fewer than three tokens, and the empty read
FewTokens == {"GET\r\n", "GET /index.html\r\n", "GET", ""}

\* C5: a request line of fewer than three tokens never ends the worker or
\* the process: the handler is not left through a signal or exit(), and
\* once it has returned the connection is closed.
C5_MalformedNeverCrashes ==
  \A c \in Handles :
    (conn[c].sent.kind = "bytes" /\ conn[c].sent.raw \in FewTokens)
      => /\ ~Aborted(c)
         /\ Returned(c) => conn[c].closes = 1

(* ------------------------------------------------------------------ *)
(* C6                                                                  *)
(* ------------------------------------------------------------------ *)

\* C6: a failed read(), write() or fopen() on one connection leaves the
\* process running.
C6_IoFailureConfined ==
  \A w \in Workers :
    wk[w].failed \in {"read", "write", "fopen"} => proc = "running"

(* ------------------------------------------------------------------ *)
(* C7                                                                  *)
(* ------------------------------------------------------------------ *)

\* C7: with more connections accepted than there are workers, cooperative
\* clients and fair scheduling, every accepted connection is eventually
\* taken from the queue, answered and closed.  Stated so that a finite run
\* refutes it: as long as an accepted connection is not closed, the process
\* that is to serve it is running (and then fairness makes it progress).
C7_EveryJobServed ==
  \A c \in Handles :
    (naccepted > NumWorkers /\ Accepted(c) /\ conn[c].closes = 0)
      => proc = "running"

(* ------------------------------------------------------------------ *)
(* C8                                                                  *)
(* ------------------------------------------------------------------ *)

\* the workers that hold the result of get_full_path
Resolved == {w \in Workers : wk[w].pc \notin {"idle", "read", "exit", "segv"}}

HasDot(s) == \E i \in 1..Len(s) : Ch(s, i) = "."

\* the part of s from its last '.'
RECURSIVE FromLastDot(_)
FromLastDot(s) ==
  IF ~HasDot(Tail(s)) THEN s ELSE FromLastDot(Tail(s))

\* C8: the status get_full_path sets is Found exactly when webroot+uri
\* contains a '.', is readable on the filesystem, and its part from the last
\* '.' is one of .html .jpg .css .js; the full path is returned either way.
C8_FoundIffReadableSupported ==
  \A w \in Resolved :
    fsEvents = 0 =>
      LET full == webroot \o wk[w].request.URI
      IN  /\ wk[w].path = full
          /\ wk[w].status_code = FOUND <=>
               /\ HasDot(full)
               /\ fopen(fs, full)
               /\ FromLastDot(full) \in Supported

\* what the code decides instead: the same with "exists" (access F_OK) in
\* place of "is readable"
FoundIffExistsSupported ==
  \A w \in Resolved :
    fsEvents = 0 =>
      LET full == webroot \o wk[w].request.URI
      IN  /\ wk[w].path = full
          /\ wk[w].status_code = FOUND <=>
               /\ HasDot(full)
               /\ access(fs, full)
               /\ FromLastDot(full) \in Supported

(* ------------------------------------------------------------------ *)
(* C9                                                                  *)
(* ------------------------------------------------------------------ *)

\* C9: no file outside the web root is opened; a URI whose canonical path
\* leaves the web root is answered 404 without a body.
C9_NoReadOutsideRoot ==
  /\ \A w \in Workers :
       wk[w].file # "" => SubSeq(wk[w].file, 1, Len(webroot) + 1) = webroot \o "/"
  /\ \A c \in Handles :
       LET r == conn[c].sent
           canon == Namei(webroot \o r.uri)
       IN  ( /\ WireRequest(r) /\ Answered(c)
             /\ SubSeq(canon, 1, Len(webroot) + 1) # webroot \o "/" )
           => \E ct \in ContentTypeLines :
                conn[c].out = r.version \o " 404 Not Found\r\n"
                              \o ct \o "Content-Length: 0\r\n\r\n"

(* ------------------------------------------------------------------ *)
(* C10                                                                 *)
(* ------------------------------------------------------------------ *)

MissingHtml == Line("GET", "/missing.html", "HTTP/1.1", "\r\n", "")

NoSupportedExtension(r) ==
  WireRequest(r) /\ ~\E e \in Supported : Suffix(r.uri, e)

\* s occurs in t
Occurs(s, t) ==
  \E i \in 1..(Len(t) - Len(s) + 1) : SubSeq(t, i, i + Len(s) - 1) = s

\* C11: the answer to a wire-format request whose path has an unsupported
\* extension or none is the status line, directly followed by the line
\* "Content-Type: application/octet-stream", and it has no body: after the
\* Content-Length: 0 line and the blank line nothing follows; no MIME type
\* of the table occurs in it.
C11_OctetStreamNoBody ==
  \A c \in Handles :
    LET r == conn[c].sent
    IN  NoSupportedExtension(r) /\ Answered(c) =>
          /\ conn[c].out = r.version \o " 404 Not Found\r\n"
                           \o "Content-Type: application/octet-stream\r\n"
                           \o "Content-Length: 0\r\n\r\n"
          /\ \A e \in Supported : ~Occurs(Mime[e], conn[c].out)

\* GET /archive.zip HTTP/1.1, with the file present, has been answered
C11_Witness ==
  \E c \in Handles :
    /\ conn[c].sent = Line("GET", "/archive.zip", "HTTP/1.1", "\r\n", "")
    /\ fs["/w/archive.zip"].exists
    /\ Answered(c)
    /\ Occurs("application/octet-stream", conn[c].out)

(* ------------------------------------------------------------------ *)
(* C12                                                                 *)
(* ------------------------------------------------------------------ *)

AllBusy == \A w \in Workers : wk[w].pc # "idle"

\* C12: a step of the acceptor (one that changes main's position, its
\* client or the count of accepted connections) reads, writes, opens and
\* closes nothing: the connections, the workers and the filesystem stay as
\* they are; and whenever every worker is busy, also with a worker waiting
\* in read() for a client that sends nothing, the acceptor can take its
\* next step: accept a further connection, or submit the one it holds.
C12_AcceptorNeverBlocked ==
  /\ [][ (mpc' # mpc \/ client' # client \/ naccepted' # naccepted)
           => (conn' = conn /\ wk' = wk /\ fs' = fs) ]_vars
  /\ [](proc = "running" /\ AllBusy =>
          /\ (mpc = "accept" /\ naccepted < limit) => ENABLED AcceptOk
          /\ mpc = "submit" => ENABLED Submit)

\* every worker waits in read() and the acceptor has taken a further
\* connection, which it is about to submit
C12_Witness ==
  /\ \A w \in Workers : wk[w].pc = "read"
  /\ mpc = "submit" /\ client = NumWorkers + 1
  /\ proc = "running"

(* ------------------------------------------------------------------ *)
(* C13                                                                 *)
(* ------------------------------------------------------------------ *)

\* the index of the first blank line's CR in t, 0 when there is none
BlankLine(t) ==
  LET I == {i \in 1..(Len(t) - 3) : SubSeq(t, i, i + 3) = "\r\n\r\n"}
  IN  IF I = {} THEN 0 ELSE CHOOSE i \in I : \A j \in I : i <= j

\* what follows the first blank line of t
Body(t) == IF BlankLine(t) = 0 THEN ""
           ELSE SubSeq(t, BlankLine(t) + 4, Len(t))

\* t up to and including its first blank line
HeaderBlock(t) == SubSeq(t, 1, BlankLine(t) + 3)

\* t ends with s
EndsWith(t, s) ==
  Len(t) >= Len(s) /\ SubSeq(t, Len(t) - Len(s) + 1, Len(t)) = s

\* the number of places at which s occurs in t
Count(s, t) ==
  Cardinality({i \in 1..(Len(t) - Len(s) + 1) : SubSeq(t, i, i + Len(s) - 1) = s})

\* C13: on every connection, whatever has been written before a blank line
\* is header lines only (a status line and at most a Content-Type line);
\* bytes after the blank line are preceded by a Content-Length header with
\* the decimal number of those bytes; and once fread has returned fewer
\* bytes than the size probed, the connection has neither a Content-Length
\* header nor a body when read_write_file returns.
C13_BodyOnlyAfterLength ==
  /\ \A c \in Handles :
       LET t == conn[c].out
       IN  /\ BlankLine(t) = 0 =>
                \/ t = ""
                \/ /\ EndsWith(t, "\r\n") /\ Count("\r\n", t) <= 2
                   /\ Count("\r\n", t) = 2 => Occurs("\r\nContent-Type: ", t)
           /\ Body(t) # "" =>
                EndsWith(HeaderBlock(t), "\r\nContent-Length: "
                                   \o Decimal(Len(Body(t))) \o "\r\n\r\n")
  /\ \A w \in Workers :
       ( /\ wk[w].pc = "close" /\ wk[w].file # ""
         /\ Len(wk[w].bytes) # wk[w].file_size )
       => /\ ~Occurs("Content-Length", conn[wk[w].client].out)
          /\ BlankLine(conn[wk[w].client].out) = 0

\* the file was truncated between the probe and the fread, and
\* read_write_file has returned
C13_Witness ==
  \E w \in Workers :
    /\ wk[w].pc = "close" /\ wk[w].file = "/w/index.html"
    /\ wk[w].file_size = Len(InitFs["/w/index.html"].data)
    /\ wk[w].bytes = ""
    /\ conn[wk[w].client].out # ""

(* ------------------------------------------------------------------ *)
(* C14                                                                 *)
(* ------------------------------------------------------------------ *)

\* t is one token: not empty, and without a space or a line terminator
OneToken(t) ==
  t # "" /\ \A i \in 1..Len(t) : SubSeq(t, i, i) \notin {" ", "\r", "\n"}

\* C14: every request parse_request has returned to the handler has a
\* method, a URI and an HTTP version that are one token each: a first line
\* of fewer or of more than three tokens yields no request.
C14_RequestOnlyForThreeTokens ==
  \A w \in Resolved :
    /\ OneToken(wk[w].request.method)
    /\ OneToken(wk[w].request.URI)
    /\ OneToken(wk[w].request.httpversion)

(* ------------------------------------------------------------------ *)
(* C15                                                                 *)
(* ------------------------------------------------------------------ *)

\* C15: for a request line "<METHOD> <URI> <HTTP-VERSION>" ended by "\r\n"
\* or by a bare "\n", the version parse_request returns is the third token
\* whole, and the status line on the connection begins with that version.
C15_VersionPreserved ==
  \A c \in Handles :
    LET r == conn[c].sent
    IN  r.kind = "line" =>
          /\ \A w \in Holders(c) \cap Resolved :
               wk[w].request.httpversion = r.version
          /\ conn[c].out # "" =>
               SubSeq(conn[c].out, 1, Len(r.version) + 1) = r.version \o " "

(* ------------------------------------------------------------------ *)
(* C16                                                                 *)
(* ------------------------------------------------------------------ *)

\* the index of the first CR LF of t, 0 when there is none
FirstCrLf(t) ==
  LET I == {i \in 1..(Len(t) - 1) : SubSeq(t, i, i + 1) = "\r\n"}
  IN  IF I = {} THEN 0 ELSE CHOOSE i \in I : \A j \in I : i <= j

\* the first line of t without its terminator
StatusLine(t) == SubSeq(t, 1, FirstCrLf(t) - 1)

\* what follows the first line of t
AfterStatusLine(t) == SubSeq(t, FirstCrLf(t) + 2, Len(t))

\* t begins with s
StartsWith(t, s) == Len(t) >= Len(s) /\ SubSeq(t, 1, Len(s)) = s

\* C16: on every connection whose status line is "... 200 OK", what follows
\* the status line is nothing yet or begins with the Content-Type line of
\* one of the four mapped MIME types, and the fallback
\* application/octet-stream occurs nowhere on it.
C16_OkHasMappedType ==
  \A c \in Handles :
    LET t == conn[c].out
    IN  (FirstCrLf(t) # 0 /\ EndsWith(StatusLine(t), " 200 OK")) =>
          /\ \/ AfterStatusLine(t) = ""
             \/ \E e \in Supported :
                  StartsWith(AfterStatusLine(t),
                             "Content-Type: " \o Mime[e] \o "\r\n")
          /\ ~Occurs("application/octet-stream", t)

\* GET /i.jpg has been answered with 200 OK and image/jpeg
C16_Witness ==
  \E c \in Handles :
    /\ Answered(c)
    /\ StartsWith(conn[c].out,
                  "HTTP/1.1 200 OK\r\nContent-Type: image/jpeg\r\n")

(* ------------------------------------------------------------------ *)
(* C17                                                                 *)
(* ------------------------------------------------------------------ *)

\* C17: no step of the server changes the filesystem (only another
\* process's unlink or truncate does); no connection has its file opened or
\* read more than once, or read without being opened; up to the end of path
\* resolution and the header lines nothing is opened or read; a handler
\* whose status code is NOT_FOUND opens and reads nothing; the file opened
\* is the one the resolved path names; and when the handler has returned,
\* a connection answered 200 OK had its file opened once and read once and
\* a connection answered 404 had none opened or read.
C17_OneReadPerFound ==
  /\ [][fs' # fs => fsEvents' = fsEvents + 1 /\ wk' = wk /\ conn' = conn]_vars
  /\ [](\A c \in Handles :
          /\ conn[c].opens <= 1 /\ conn[c].reads <= conn[c].opens
          /\ Returned(c) /\ EndsWith(StatusLine(conn[c].out), " 200 OK")
               => conn[c].opens = 1 /\ conn[c].reads = 1
          /\ Returned(c) /\ EndsWith(StatusLine(conn[c].out), " 404 Not Found")
               => conn[c].opens = 0 /\ conn[c].reads = 0)
  /\ [](\A w \in Workers :
          /\ wk[w].pc \in {"read", "status", "ctype", "fopen"}
               => conn[wk[w].client].opens = 0 /\ conn[wk[w].client].reads = 0
          /\ (w \in Resolved /\ wk[w].status_code = NOT_FOUND)
               => /\ conn[wk[w].client].opens = 0
                  /\ conn[wk[w].client].reads = 0
                  /\ wk[w].file = ""
          /\ (w \in Resolved /\ wk[w].file # "")
               => wk[w].status_code = FOUND /\ wk[w].file = Namei(wk[w].path))

\* a handler has returned after a 200 OK with one open and one read of
\* its file, and nothing changed the filesystem
C17_Witness ==
  \E c \in Handles :
    /\ Returned(c) /\ EndsWith(StatusLine(conn[c].out), " 200 OK")
    /\ conn[c].opens = 1 /\ conn[c].reads = 1
    /\ fs = InitFs

(* ------------------------------------------------------------------ *)
(* C18                                                                 *)
(* ------------------------------------------------------------------ *)

\* C18: the step in which accept() fails leaves main at accept, the queue,
\* the count of accepted connections and the process as they were; main
\* never stands at the submit with ERROR for a handle and the queue never
\* holds anything but accepted handles; after a failure accept can succeed
\* again, and every submit appends the handle accepted last.
C18_FailedAcceptSubmitsNothing ==
  /\ [][ (client # ERROR /\ client' = ERROR)
           => /\ mpc' = "accept" /\ queue' = queue
              /\ naccepted' = naccepted /\ proc' = proc ]_vars
  /\ [][ (mpc = "submit" /\ mpc' = "accept")
           => client = naccepted /\ queue' = Append(queue, naccepted) ]_vars
  /\ [](/\ client = ERROR => mpc = "accept"
        /\ \A i \in 1..Len(queue) : queue[i] \in 1..naccepted
        /\ (proc = "running" /\ client = ERROR /\ naccepted < limit)
             => ENABLED AcceptOk)

\* accept() has failed after a connection was queued, and further
\* connections can arrive
C18_Witness ==
  /\ client = ERROR /\ mpc = "accept" /\ proc = "running"
  /\ queue # <<>> /\ naccepted < limit

(* ------------------------------------------------------------------ *)
(* C19                                                                 *)
(* ------------------------------------------------------------------ *)

\* C19: while the process runs, main is at accept or at the submit of the
\* accept loop, whatever the value of running; setting running changes
\* nothing else; with running set, accept still takes a connection, the
\* submit still queues it and an idle worker still takes a queued job, so
\* the pool has not been shut down.
C19_LoopNeverReturns ==
  /\ [][running' # running
          => UNCHANGED <<proc, mpc, client, naccepted, queue, wk, conn, fs>>]_vars
  /\ [](proc = "running" =>
          /\ mpc \in {"accept", "submit"}
          /\ (mpc = "accept" /\ naccepted < limit) => ENABLED AcceptOk
          /\ mpc = "accept" => ENABLED AcceptFail
          /\ mpc = "submit" => ENABLED Submit
          /\ (queue # <<>> /\ \E w \in Workers : wk[w].pc = "idle")
               => \E w \in Workers : ENABLED Dequeue(w))

\* handle_sig_int has set running, and main is at accept with a
\* connection still to come
C19_Witness ==
  /\ running /\ proc = "running"
  /\ mpc = "accept" /\ naccepted < limit

====
